---- MODULE Spec2Model ----
(***************************************************************************)
(* Slot / availability engine and visit-request handlers of the OwnSpace   *)
(* backend (routes/visitRoutes.js, index.js and the models).              *)
(*                                                                         *)
(* Time is counted in minutes since 00:00 of day 0, server-local.  A       *)
(* date string YYYY-MM-DD is the day number, a well-formed HH:mm string is *)
(* the number h*60+m; both orders agree with the string orders the code    *)
(* uses.  Every `await` of a handler is a point where other handlers may   *)
(* run, so a handler is a sequence of actions, one per store access.       *)
(***************************************************************************)
EXTENDS Integers, Sequences, FiniteSets, TLC

VARIABLES
    now,          \* server clock (new Date()), minutes
    slots,        \* VisitSlot collection: set of documents
    nextSlotId,   \* _id given to the next VisitSlot document
    visits,       \* VisitRequest collection: sequence, index = _id
    unavailable,  \* UnavailableDate collection: <<property, date>> -> number of documents
    req,          \* per request process: the handler in flight and its locals
    swPc,         \* markExpiredSlots: "idle" or "update"
    swIds,        \* markExpiredSlots: toExpireIds
    calls,        \* number of requests received so far
    resp          \* the response sent by the last step, if it sent one

vars == <<now, slots, nextSlotId, visits, unavailable, req, swPc, swIds, calls, resp>>

-----------------------------------------------------------------------------
(* Bounds of the model *)

MaxSlots == 3      \* VisitSlot documents ever created
MaxVisits == 2     \* VisitRequest documents ever created
MaxCalls == 3      \* requests received

Procs == {1, 2}

MinutesPerDay == 1440
HorizonDays == 30
SlotMinutes == 30
BufferMinutes == 10

HM(h, m) == h * 60 + m

\* instants the clock takes: 08:00 and 09:30 of day 0, 08:00 of day 1
Instants == {HM(8, 0), HM(9, 30), MinutesPerDay + HM(8, 0)}

Properties == {"P1", "P2"}
Dates == {0, 1, 32}
Times == {HM(9, 0), HM(9, 30)}
TimeLists == {<<HM(9, 0)>>, <<HM(9, 30)>>, <<HM(9, 0), HM(9, 30)>>}

\* the (propertyId, date, times[]) bodies of POST /slots requests
CreateInputs == {"P1"} \X Dates \X TimeLists

\* the (propertyId, date) bodies of POST and DELETE /unavailable requests
UnavailableInputs == {"P1"} \X Dates

\* the (propertyId, date, time) of the scheduledAt of POST / requests
BookInputs == {"P1"} \X Dates \X Times
Buyers == {"buyer1"}
Users == {"buyer1", "buyer2", "agent1", "admin1"}

NoUser == "none"
NoVisit == 0
NoSlot == 0
NaN == -1

\* Property documents (property CRUD is outside the model): agent and createdBy
PropertyDoc(p) ==
    IF p = "P1" THEN [agent |-> "agent1", createdBy |-> "admin1"]
    ELSE [agent |-> NoUser, createdBy |-> "admin1"]

-----------------------------------------------------------------------------
(* Helpers of visitRoutes.js *)

toYMD(d) == d \div MinutesPerDay

toHM(d) == d % MinutesPerDay

addDays(d, n) == d + n * MinutesPerDay

\* new Date(`${date}T${hm}:00`): local time; hour 24 is accepted only as 24:00
ParseLocal(date, hm) ==
    IF hm \div 60 <= 23 \/ hm = HM(24, 0)
    THEN date * MinutesPerDay + hm
    ELSE NaN

\* the end time createSlots stores for a start time h:m
EndTime(start) ==
    LET h == start \div 60
        m == start % 60
        endH == IF m + SlotMinutes >= 60 THEN h + 1 ELSE h
        endM == (m + SlotMinutes) % 60
    IN  HM(endH, endM)

-----------------------------------------------------------------------------
(* Request processes *)

\* no VisitRequest document loaded
NoDoc ==
    [property |-> "P1", requester |-> NoUser, recipient |-> NoUser,
     scheduledAt |-> 0, status |-> ""]

Idle ==
    [op |-> "idle", pc |-> "idle", property |-> "P1", date |-> 0, hm |-> 0,
     now |-> 0, slot |-> NoSlot, visit |-> NoVisit,
     caller |-> NoUser, times |-> <<>>, created |-> <<>>, skipped |-> <<>>,
     blackoutSet |-> {}, status |-> "", scheduledAt |-> 0, doc |-> NoDoc]

NoData == [availableDates |-> <<>>, slotsByDate |-> <<>>]

NoResponse ==
    [proc |-> 0, op |-> "", status |-> 0, kind |-> "", property |-> "P1",
     date |-> 0, slot |-> NoSlot, visit |-> NoVisit, created |-> <<>>, skipped |-> <<>>,
     data |-> NoData, mailError |-> FALSE]

\* a new request arrives and is served by p, the first process that is free
\* (request processes have no identity of their own)
Accept(p) ==
    /\ req[p].op = "idle"
    /\ \A q \in Procs : q < p => req[q].op # "idle"
    /\ calls < MaxCalls
    /\ calls' = calls + 1

\* res.status(code).json(...): the handler of p, with locals r, ends with this
\* response, whose body carries data
ReplyData(p, r, code, kind, data) ==
    /\ req' = [req EXCEPT ![p] = Idle]
    /\ resp' = [proc |-> p, op |-> r.op, status |-> code, kind |-> kind,
                property |-> r.property, date |-> r.date, slot |-> r.slot,
                visit |-> r.visit,
                created |-> r.created, skipped |-> r.skipped, data |-> data,
                mailError |-> FALSE]

Reply(p, r, code, kind) == ReplyData(p, r, code, kind, NoData)

\* mutant of MailOutcome: an error of the mail step reaches the outer catch
MailErrorThrown(sent, code) == IF sent THEN code ELSE 500

\* lines 95-108 (and 283-300): the mail is sent inside its own try/catch, which
\* logs the error and goes on to the response of the handler
MailOutcome(sent, code) == code

\* the mail step and the response after it; sent is false when the user lookup
\* or transporter.sendMail throws
MailAndReply(p, r, sent, code, kind) ==
    /\ req' = [req EXCEPT ![p] = Idle]
    /\ resp' = [proc |-> p, op |-> r.op, status |-> MailOutcome(sent, code),
                kind |-> kind, property |-> r.property, date |-> r.date,
                slot |-> r.slot, visit |-> r.visit,
                created |-> r.created, skipped |-> r.skipped, data |-> NoData,
                mailError |-> ~sent]

\* the handler of p goes on to its next await with locals r
Continue(p, r) ==
    /\ req' = [req EXCEPT ![p] = r]
    /\ resp' = NoResponse

HasSlot(id) == \E s \in slots : s.id = id

SlotById(id) == CHOOSE s \in slots : s.id = id

-----------------------------------------------------------------------------
(* POST /api/visits : book *)

\* mutant of BookStart: without the past/present check of lines 42-44
BookStartAnyTime(p, prop, sched, caller) ==
    /\ Accept(p)
    /\ LET ymd == toYMD(sched)
           r == [Idle EXCEPT !.op = "book", !.property = prop, !.date = ymd,
                             !.hm = toHM(sched), !.now = now, !.caller = caller]
       IN  IF ymd < toYMD(now) \/ ymd > toYMD(addDays(now, HorizonDays))
           THEN Reply(p, r, 400, "ValidationError")
           ELSE Continue(p, [r EXCEPT !.pc = "checkUnavailable"])
    /\ UNCHANGED <<now, slots, nextSlotId, visits, unavailable, swPc, swIds>>

\* lines 34-54: property lookup, past/present check, horizon check
BookStart(p, prop, sched, caller) ==
    /\ Accept(p)
    /\ LET ymd == toYMD(sched)
           hm == toHM(sched)
           today == toYMD(now)
           maxDate == toYMD(addDays(now, HorizonDays))
           r == [Idle EXCEPT !.op = "book", !.property = prop, !.date = ymd,
                             !.hm = hm, !.now = now, !.caller = caller]
       IN  IF sched <= now THEN Reply(p, r, 400, "ValidationError")
           ELSE IF ymd < today \/ ymd > maxDate
                THEN Reply(p, r, 400, "ValidationError")
                ELSE Continue(p, [r EXCEPT !.pc = "checkUnavailable"])
    /\ UNCHANGED <<now, slots, nextSlotId, visits, unavailable, swPc, swIds>>

\* mutant of BookCheckUnavailable: the blackout date is not looked up
BookSkipUnavailable(p) ==
    /\ req[p].op = "book" /\ req[p].pc = "checkUnavailable"
    /\ Continue(p, [req[p] EXCEPT !.pc = "findSlot"])
    /\ UNCHANGED <<now, slots, nextSlotId, visits, unavailable, swPc, swIds, calls>>

\* lines 56-59: UnavailableDate.findOne
BookCheckUnavailable(p) ==
    /\ req[p].op = "book" /\ req[p].pc = "checkUnavailable"
    /\ IF unavailable[<<req[p].property, req[p].date>>] > 0
       THEN Reply(p, req[p], 400, "ConflictError")
       ELSE Continue(p, [req[p] EXCEPT !.pc = "findSlot"])
    /\ UNCHANGED <<now, slots, nextSlotId, visits, unavailable, swPc, swIds, calls>>

\* mutant of BookCandidates: the lookup without isBooked: false
BookCandidatesBookedToo(prop, ymd, hm) ==
    {s \in slots : s.property = prop /\ s.date = ymd /\ s.startTime = hm}

\* the documents VisitSlot.findOne({property, date, startTime, isBooked: false}) matches
BookCandidates(prop, ymd, hm) ==
    {s \in slots : s.property = prop /\ s.date = ymd /\ s.startTime = hm
                   /\ ~s.isBooked}

\* lines 61-74: VisitSlot.findOne and the guard for a slot of today
BookFindSlot(p) ==
    /\ req[p].op = "book" /\ req[p].pc = "findSlot"
    /\ LET r == req[p]
           found == BookCandidates(r.property, r.date, r.hm)
       IN  IF found = {}
           THEN Reply(p, r, 400, "NotAvailable")
           ELSE \E s \in found :
                   LET slotDate == toYMD(now) * MinutesPerDay + s.startTime
                   IN  IF r.date = toYMD(r.now) /\ slotDate <= r.now
                       THEN Reply(p, r, 400, "NotAvailable")
                       ELSE Continue(p, [r EXCEPT !.pc = "createVisit", !.slot = s.id])
    /\ UNCHANGED <<now, slots, nextSlotId, visits, unavailable, swPc, swIds, calls>>

\* mutant of Recipient: no fall-back to the creator of the property
RecipientAgentOnly(prop) == PropertyDoc(prop).agent

\* the recipient: agent if exists, else createdBy
Recipient(prop) ==
    IF PropertyDoc(prop).agent # NoUser THEN PropertyDoc(prop).agent
    ELSE PropertyDoc(prop).createdBy

\* the document VisitRequest.create stores (status defaults to pending)
NewVisit(r) ==
    [property |-> r.property, requester |-> r.caller,
     recipient |-> Recipient(r.property),
     scheduledAt |-> r.date * MinutesPerDay + r.hm, status |-> "pending"]

\* lines 76-86: VisitRequest.create
BookCreateVisit(p) ==
    /\ req[p].op = "book" /\ req[p].pc = "createVisit"
    /\ Len(visits) < MaxVisits
    /\ visits' = Append(visits, NewVisit(req[p]))
    /\ Continue(p, [req[p] EXCEPT !.pc = "saveSlot", !.visit = Len(visits) + 1])
    /\ UNCHANGED <<now, slots, nextSlotId, unavailable, swPc, swIds, calls>>

\* mutant of MarkBooked: the back-reference is not set
MarkBookedOnly(s, visitId) == [s EXCEPT !.isBooked = TRUE]

\* slot.isBooked = true; slot.bookedByVisitId = visit._id (the paths save() writes)
MarkBooked(s, visitId) == [s EXCEPT !.isBooked = TRUE, !.bookedByVisitId = visitId]

\* lines 90-110: slot.save() updates the document by _id; it throws when the
\* document is gone (caught at line 111: 500). The mail is best-effort.
BookSaveSlot(p) ==
    /\ req[p].op = "book" /\ req[p].pc = "saveSlot"
    /\ IF HasSlot(req[p].slot)
       THEN /\ slots' = {IF s.id = req[p].slot THEN MarkBooked(s, req[p].visit) ELSE s
                          : s \in slots}
            /\ \E sent \in BOOLEAN : MailAndReply(p, req[p], sent, 201, "ok")
       ELSE /\ slots' = slots
            /\ Reply(p, req[p], 500, "ServerError")
    /\ UNCHANGED <<now, nextSlotId, visits, unavailable, swPc, swIds, calls>>

-----------------------------------------------------------------------------
(* POST /api/visits/slots : createSlots *)

\* lines 146-159: for a slot of today, slotTime <= bufferTime
TooSoon(r, start) ==
    /\ r.date = toYMD(r.now)
    /\ toYMD(r.now) * MinutesPerDay + start <= r.now + BufferMinutes

\* routes/visitRoutes.js lines 316-320, the later version of the route: the
\* test compares the hour and the minute fields
TooSoonByFields(r, start) ==
    /\ r.date = toYMD(r.now)
    /\ \/ (start \div 60) < (toHM(r.now) \div 60)
       \/ /\ (start \div 60) = (toHM(r.now) \div 60)
          /\ start % 60 < (toHM(r.now) % 60) + BufferMinutes

\* the iterations of the loop that end at `continue` (line 157) await nothing:
\* they run at once, up to the next time that reaches VisitSlot.create
RECURSIVE SkipTooSoon(_)
SkipTooSoon(r) ==
    IF r.times # <<>> /\ TooSoon(r, Head(r.times))
    THEN SkipTooSoon([r EXCEPT !.times = Tail(@),
                               !.skipped = Append(@, <<Head(r.times), "TooSoon">>)])
    ELSE r

\* lines 169-174: the response once the loop is over, else the next await
CreateSlotsLoop(p, r) ==
    IF SkipTooSoon(r).times = <<>>
    THEN Reply(p, SkipTooSoon(r), 201, "ok")
    ELSE Continue(p, [SkipTooSoon(r) EXCEPT !.pc = "create"])

\* mutant of CreateSlotsStart: a date before today is let through
CreateSlotsStartNoPast(p, prop, date, times) ==
    /\ Accept(p)
    /\ LET r == [Idle EXCEPT !.op = "createSlots", !.property = prop, !.date = date,
                             !.now = now, !.times = times]
       IN  IF date > toYMD(addDays(now, HorizonDays))
           THEN Reply(p, r, 400, "ValidationError")
           ELSE CreateSlotsLoop(p, r)
    /\ UNCHANGED <<now, slots, nextSlotId, visits, unavailable, swPc, swIds>>

\* lines 124-137: property lookup and the horizon check of the whole call
CreateSlotsStart(p, prop, date, times) ==
    /\ Accept(p)
    /\ LET today == toYMD(now)
           maxDate == toYMD(addDays(now, HorizonDays))
           r == [Idle EXCEPT !.op = "createSlots", !.property = prop, !.date = date,
                             !.now = now, !.times = times]
       IN  IF date < today \/ date > maxDate
           THEN Reply(p, r, 400, "ValidationError")
           ELSE CreateSlotsLoop(p, r)
    /\ UNCHANGED <<now, slots, nextSlotId, visits, unavailable, swPc, swIds>>

\* mutant of DuplicateKey: only unbooked slots count as holders of a key
DuplicateKeyOpenOnly(prop, date, start) ==
    \E s \in slots : s.property = prop /\ s.date = date /\ s.startTime = start
                      /\ ~s.isBooked

\* the unique index {property, date, startTime} of visitSlotSchema
DuplicateKey(prop, date, start) ==
    \E s \in slots : s.property = prop /\ s.date = date /\ s.startTime = start

\* the document VisitSlot.create stores
NewSlot(id, r, start) ==
    [id |-> id, property |-> r.property, date |-> r.date, startTime |-> start,
     endTime |-> EndTime(start), isBooked |-> FALSE, bookedByVisitId |-> NoVisit,
     isExpired |-> FALSE]

\* lines 161-167: VisitSlot.create for the time at hand; a duplicate key is skipped
CreateSlotsItem(p) ==
    /\ req[p].op = "createSlots" /\ req[p].pc = "create"
    /\ LET r == req[p]
           start == Head(r.times)
           rest == [r EXCEPT !.times = Tail(r.times)]
       IN  IF DuplicateKey(r.property, r.date, start)
           THEN /\ CreateSlotsLoop(p, [rest EXCEPT !.skipped = Append(@, <<start, "Duplicate">>)])
                /\ UNCHANGED <<slots, nextSlotId>>
           ELSE /\ nextSlotId <= MaxSlots
                /\ slots' = slots \cup {NewSlot(nextSlotId, r, start)}
                /\ nextSlotId' = nextSlotId + 1
                /\ CreateSlotsLoop(p, [rest EXCEPT !.created = Append(@, nextSlotId)])
    /\ UNCHANGED <<now, visits, unavailable, swPc, swIds, calls>>

-----------------------------------------------------------------------------
(* DELETE /api/visits/slots/:slotId : deleteSlot *)

\* mutant of DeleteSlotStart: without the booked check of line 185
DeleteSlotStartUnchecked(p, slotId) ==
    /\ Accept(p)
    /\ LET r == [Idle EXCEPT !.op = "deleteSlot", !.slot = slotId]
       IN  IF ~HasSlot(slotId) THEN Reply(p, r, 404, "NotFound")
           ELSE Continue(p, [r EXCEPT !.pc = "deleteOne"])
    /\ UNCHANGED <<now, slots, nextSlotId, visits, unavailable, swPc, swIds>>

\* lines 183-185: VisitSlot.findById and the booked check
DeleteSlotStart(p, slotId) ==
    /\ Accept(p)
    /\ LET r == [Idle EXCEPT !.op = "deleteSlot", !.slot = slotId]
       IN  IF ~HasSlot(slotId) THEN Reply(p, r, 404, "NotFound")
           ELSE IF SlotById(slotId).isBooked THEN Reply(p, r, 400, "Conflict")
           ELSE Continue(p, [r EXCEPT !.pc = "deleteOne"])
    /\ UNCHANGED <<now, slots, nextSlotId, visits, unavailable, swPc, swIds>>

\* lines 186-187: slot.deleteOne() removes the document with this _id, if any
DeleteSlotDelete(p) ==
    /\ req[p].op = "deleteSlot" /\ req[p].pc = "deleteOne"
    /\ slots' = {s \in slots : s.id # req[p].slot}
    /\ Reply(p, req[p], 200, "ok")
    /\ UNCHANGED <<now, nextSlotId, visits, unavailable, swPc, swIds, calls>>

-----------------------------------------------------------------------------
(* POST and DELETE /api/visits/unavailable : blackout dates *)

\* mutant of Upsert: a plain insert
UpsertInsert(count) == count + 1

\* UnavailableDate.findOneAndUpdate(..., {upsert: true}): one document per key
Upsert(count) == IF count = 0 THEN 1 ELSE count

\* lines 198-209: property lookup, horizon check, upsert of the blackout date
UnavailableStart(p, prop, date) ==
    /\ Accept(p)
    /\ LET today == toYMD(now)
           maxDate == toYMD(addDays(now, HorizonDays))
           r == [Idle EXCEPT !.op = "unavailable", !.property = prop, !.date = date]
       IN  IF date < today \/ date > maxDate
           THEN /\ Reply(p, r, 400, "ValidationError")
                /\ UNCHANGED unavailable
           ELSE /\ unavailable' = [unavailable EXCEPT ![<<prop, date>>] = Upsert(@)]
                /\ Continue(p, [r EXCEPT !.pc = "deleteMany"])
    /\ UNCHANGED <<now, slots, nextSlotId, visits, swPc, swIds>>

\* mutant of UnbookedOn: the deleteMany without isBooked: false
AllOn(prop, date) == {s \in slots : s.property = prop /\ s.date = date}

\* the documents VisitSlot.deleteMany({property, date, isBooked: false}) removes
UnbookedOn(prop, date) ==
    {s \in slots : s.property = prop /\ s.date = date /\ ~s.isBooked}

\* lines 210-212: removal of the unbooked slots of the date
UnavailableDeleteMany(p) ==
    /\ req[p].op = "unavailable" /\ req[p].pc = "deleteMany"
    /\ slots' = slots \ UnbookedOn(req[p].property, req[p].date)
    /\ Reply(p, req[p], 201, "ok")
    /\ UNCHANGED <<now, nextSlotId, visits, unavailable, swPc, swIds, calls>>

\* lines 219-228: UnavailableDate.deleteOne
UnavailableRemove(p, prop, date) ==
    /\ Accept(p)
    /\ unavailable' = [unavailable EXCEPT ![<<prop, date>>] = IF @ > 0 THEN @ - 1 ELSE @]
    /\ Reply(p, [Idle EXCEPT !.op = "removeUnavailable"], 200, "ok")
    /\ UNCHANGED <<now, slots, nextSlotId, visits, swPc, swIds>>

-----------------------------------------------------------------------------
(* GET /api/visits/availability/:propertyId : availability *)

\* UnavailableDate.find({property, date: {$gte: start, $lte: end}}) mapped to its dates
BlackoutSet(prop, start, end, blackout) ==
    {d \in Dates : d >= start /\ d <= end /\ blackout[<<prop, d>>] > 0}

\* mutant of OpenSlotsQuery: the query without isBooked: false
OpenSlotsQueryBookedToo(prop, start, end, docs) ==
    {s \in docs : /\ s.property = prop
                  /\ s.date >= start /\ s.date <= end
                  /\ ~s.isExpired}

\* VisitSlot.find({property, date: {$gte: start, $lte: end}, isBooked: false, isExpired: false})
OpenSlotsQuery(prop, start, end, docs) ==
    {s \in docs : /\ s.property = prop
                  /\ s.date >= start /\ s.date <= end
                  /\ ~s.isBooked /\ ~s.isExpired}

\* the order of .sort({date: 1, startTime: 1}); _id decides between equal keys
SortsBefore(a, b) ==
    \/ a.date < b.date
    \/ a.date = b.date /\ a.startTime < b.startTime
    \/ a.date = b.date /\ a.startTime = b.startTime /\ a.id <= b.id

\* mutant of SortSlots: the find without its sort, in _id order
RECURSIVE SortSlotsById(_)
SortSlotsById(docs) ==
    IF docs = {} THEN <<>>
    ELSE LET first == CHOOSE x \in docs : \A y \in docs : x.id <= y.id
         IN  <<first>> \o SortSlotsById(docs \ {first})

RECURSIVE SortSlots(_)
SortSlots(docs) ==
    IF docs = {} THEN <<>>
    ELSE LET first == CHOOSE x \in docs : \A y \in docs : SortsBefore(x, y)
         IN  <<first>> \o SortSlots(docs \ {first})

\* mutant of Skipped: the loop without its blackout test
SkippedPastOnly(s, blackoutSet, n) ==
    /\ s.date = toYMD(n)
    /\ ParseLocal(s.date, s.startTime) # NaN
    /\ ParseLocal(s.date, s.startTime) <= n

\* mutant of Skipped: a slot that starts right now is kept (< for <=)
SkippedStrictlyPast(s, blackoutSet, n) ==
    \/ s.date \in blackoutSet
    \/ /\ s.date = toYMD(n)
       /\ ParseLocal(s.date, s.startTime) # NaN
       /\ ParseLocal(s.date, s.startTime) < n

\* lines 248-255: a slot the loop passes over
Skipped(s, blackoutSet, n) ==
    \/ s.date \in blackoutSet
    \/ /\ s.date = toYMD(n)
       /\ ParseLocal(s.date, s.startTime) # NaN
       /\ ParseLocal(s.date, s.startTime) <= n

\* lines 256-257: byDate[s.date].push(...); byDate keeps its keys in insertion order
Push(byDate, s) ==
    LET item == [slotId |-> s.id, startTime |-> s.startTime, endTime |-> s.endTime]
    IN  IF \E i \in 1..Len(byDate) : byDate[i].date = s.date
        THEN [i \in 1..Len(byDate) |->
                IF byDate[i].date = s.date
                THEN [byDate[i] EXCEPT !.items = Append(@, item)]
                ELSE byDate[i]]
        ELSE Append(byDate, [date |-> s.date, items |-> <<item>>])

\* lines 246-258: the loop over the sorted slots
RECURSIVE GroupByDate(_, _, _, _)
GroupByDate(sorted, blackoutSet, n, byDate) ==
    IF sorted = <<>> THEN byDate
    ELSE GroupByDate(Tail(sorted), blackoutSet, n,
            IF Skipped(Head(sorted), blackoutSet, n) THEN byDate
            ELSE Push(byDate, Head(sorted)))

\* line 260: Object.keys(byDate).filter(d => byDate[d].length > 0)
AvailableDates(byDate) ==
    LET kept == SelectSeq(byDate, LAMBDA g : Len(g.items) > 0)
    IN  [i \in 1..Len(kept) |-> kept[i].date]

\* lines 236-261: the body of the response for the clock value n, the blackout
\* dates read at line 240 and the slot documents read at line 242
availability(prop, n, blackoutSet, docs) ==
    LET start == toYMD(n)
        end == toYMD(addDays(n, HorizonDays))
        sorted == SortSlots(OpenSlotsQuery(prop, start, end, docs))
        byDate == GroupByDate(sorted, blackoutSet, n, <<>>)
    IN  [availableDates |-> AvailableDates(byDate), slotsByDate |-> byDate]

\* lines 233-241: property lookup, the clock, UnavailableDate.find
AvailabilityStart(p, prop) ==
    /\ Accept(p)
    /\ Continue(p, [Idle EXCEPT !.op = "availability", !.pc = "findSlots",
                                !.property = prop, !.now = now,
                                !.blackoutSet = BlackoutSet(prop, toYMD(now),
                                    toYMD(addDays(now, HorizonDays)), unavailable)])
    /\ UNCHANGED <<now, slots, nextSlotId, visits, unavailable, swPc, swIds>>

\* lines 242-261: VisitSlot.find, the loop, the response
AvailabilityFind(p) ==
    /\ req[p].op = "availability" /\ req[p].pc = "findSlots"
    /\ ReplyData(p, req[p], 200, "ok",
                 availability(req[p].property, req[p].now, req[p].blackoutSet, slots))
    /\ UNCHANGED <<now, slots, nextSlotId, visits, unavailable, swPc, swIds, calls>>

\* routes/visitRoutes.js lines 421-426: the loop of the later version of the route
RECURSIVE GroupByDateQ(_, _, _)
GroupByDateQ(sorted, blackoutSet, byDate) ==
    IF sorted = <<>> THEN byDate
    ELSE GroupByDateQ(Tail(sorted), blackoutSet,
            IF Head(sorted).date \in blackoutSet THEN byDate
            ELSE Push(byDate, Head(sorted)))

\* the later version of the route (routes/visitRoutes.js lines 395-428): the query
\* keeps the slots of later dates and those of today that start after HH:mm of now
availabilityByQuery(prop, n, blackoutSet, docs) ==
    LET start == toYMD(n)
        end == toYMD(addDays(n, HorizonDays))
        found == {s \in docs : /\ s.property = prop
                               /\ s.date >= start /\ s.date <= end
                               /\ ~s.isBooked
                               /\ \/ s.date > toYMD(n)
                                  \/ s.date = toYMD(n) /\ s.startTime > toHM(n)}
        byDate == GroupByDateQ(SortSlots(found), blackoutSet, <<>>)
    IN  [availableDates |-> [i \in 1..Len(byDate) |-> byDate[i].date],
         slotsByDate |-> byDate]

-----------------------------------------------------------------------------
(* PUT /api/visits/:id/status, /visit-status, /reschedule,                  *)
(* /recipient-reschedule and DELETE /api/visits/:id : the transitions of a  *)
(* VisitRequest                                                             *)

\* models/VisitRequest.js line 8: the enum of the status path
StatusEnum == {"pending", "approved", "rejected"}

\* the userType of the users (models/User.js line 41), which authorize() reads
UserType(u) ==
    IF u = "agent1" THEN "agent" ELSE IF u = "admin1" THEN "admin" ELSE "buyer"

\* a request body without scheduledAt
NoInstant == -2

\* VisitRequest.findById(id) finds a document
HasVisit(id) == id \in DOMAIN visits

\* mutant of ModifiedPaths: save() writes the whole document back
AllPaths(loaded, changed) == {"status", "scheduledAt"}

\* the paths the handler gave a value different from the loaded one
ModifiedPaths(loaded, changed) ==
    {f \in {"status", "scheduledAt"} : changed[f] # loaded[f]}

\* visit.save(): $set of the modified paths of the document with this _id
SaveVisit(id, loaded, changed) ==
    LET paths == ModifiedPaths(loaded, changed)
    IN  [visits EXCEPT ![id] =
            [@ EXCEPT !.status = IF "status" \in paths THEN changed.status ELSE @,
                      !.scheduledAt = IF "scheduledAt" \in paths
                                      THEN changed.scheduledAt ELSE @]]

\* mutant of ValidStatus: any string is stored
AnyStatus(doc) == TRUE

\* the enum validator of the status path, which save() runs
ValidStatus(doc) == doc.status \in StatusEnum

\* visit.save() and the response of the handler: a validation error is thrown
\* to the catch of the handler (500); mailed: the handler sends a mail after it
SaveAndReply(p, changed, mailed) ==
    IF ValidStatus(changed)
    THEN /\ visits' = SaveVisit(req[p].visit, req[p].doc, changed)
         /\ IF mailed
            THEN \E sent \in BOOLEAN : MailAndReply(p, req[p], sent, 200, "ok")
            ELSE Reply(p, req[p], 200, "ok")
    ELSE /\ visits' = visits
         /\ Reply(p, req[p], 500, "ServerError")

\* mutant of StatusFind: any caller may approve or reject
StatusFindAnyCaller(p, id, status, caller) ==
    /\ Accept(p)
    /\ LET r == [Idle EXCEPT !.op = "status", !.visit = id, !.status = status,
                             !.caller = caller, !.now = now]
       IN  IF status \notin {"approved", "rejected"}
           THEN Reply(p, r, 400, "ValidationError")
           ELSE IF ~HasVisit(id) THEN Reply(p, r, 404, "NotFoundError")
           ELSE Continue(p, [r EXCEPT !.pc = "save", !.doc = visits[id]])
    /\ UNCHANGED <<now, slots, nextSlotId, visits, unavailable, swPc, swIds>>

\* part_006 lines 271-279: approve / reject up to the save
StatusFind(p, id, status, caller) ==
    /\ Accept(p)
    /\ LET r == [Idle EXCEPT !.op = "status", !.visit = id, !.status = status,
                             !.caller = caller, !.now = now]
       IN  IF status \notin {"approved", "rejected"}
           THEN Reply(p, r, 400, "ValidationError")
           ELSE IF ~HasVisit(id) THEN Reply(p, r, 404, "NotFoundError")
           ELSE IF visits[id].recipient # caller
                THEN Reply(p, r, 403, "AuthorizationError")
                ELSE Continue(p, [r EXCEPT !.pc = "save", !.doc = visits[id]])
    /\ UNCHANGED <<now, slots, nextSlotId, visits, unavailable, swPc, swIds>>

\* part_006 lines 280-302: visit.status = status; save; mail; response
StatusSave(p) ==
    /\ req[p].op = "status" /\ req[p].pc = "save"
    /\ SaveAndReply(p, [req[p].doc EXCEPT !.status = req[p].status], TRUE)
    /\ UNCHANGED <<now, slots, nextSlotId, unavailable, swPc, swIds, calls>>

\* mutant of TooEarly: the scheduled instant itself is too early
TooEarlyUntilAfter(scheduledAt, t) == scheduledAt >= t

\* visitRoutes.js line 494: new Date(visit.scheduledAt) > now
TooEarly(scheduledAt, t) == scheduledAt > t

\* visitRoutes.js lines 477-507: attendance status up to the save
VisitStatusFind(p, id, status, caller) ==
    /\ Accept(p)
    /\ LET r == [Idle EXCEPT !.op = "visitStatus", !.visit = id, !.status = status,
                             !.caller = caller, !.now = now]
       IN  IF UserType(caller) \notin {"agent", "admin"}
           THEN Reply(p, r, 403, "AuthorizationError")
           ELSE IF status \notin {"visited", "not visited"}
           THEN Reply(p, r, 400, "ValidationError")
           ELSE IF ~HasVisit(id) THEN Reply(p, r, 404, "NotFoundError")
           ELSE IF visits[id].recipient # caller
                THEN Reply(p, r, 403, "AuthorizationError")
           ELSE IF TooEarly(visits[id].scheduledAt, now)
                THEN Reply(p, r, 400, "ValidationError")
           ELSE IF visits[id].status # "approved"
                THEN Reply(p, r, 400, "ValidationError")
                ELSE Continue(p, [r EXCEPT !.pc = "save", !.doc = visits[id]])
    /\ UNCHANGED <<now, slots, nextSlotId, visits, unavailable, swPc, swIds>>

\* visitRoutes.js lines 509-532: visit.status = status; save; mail; response
VisitStatusSave(p) ==
    /\ req[p].op = "visitStatus" /\ req[p].pc = "save"
    /\ SaveAndReply(p, [req[p].doc EXCEPT !.status = req[p].status], TRUE)
    /\ UNCHANGED <<now, slots, nextSlotId, unavailable, swPc, swIds, calls>>

\* part_006 lines 340-346: reschedule by the requester up to the save
RescheduleFind(p, id, scheduledAt, caller) ==
    /\ Accept(p)
    /\ LET r == [Idle EXCEPT !.op = "reschedule", !.visit = id,
                             !.scheduledAt = scheduledAt, !.caller = caller,
                             !.now = now]
       IN  IF scheduledAt = NoInstant THEN Reply(p, r, 400, "ValidationError")
           ELSE IF ~HasVisit(id) THEN Reply(p, r, 404, "NotFoundError")
           ELSE IF visits[id].requester # caller
                THEN Reply(p, r, 403, "AuthorizationError")
                ELSE Continue(p, [r EXCEPT !.pc = "save", !.doc = visits[id]])
    /\ UNCHANGED <<now, slots, nextSlotId, visits, unavailable, swPc, swIds>>

\* mutant of Rescheduled: the status is left as it was
RescheduledKeepStatus(doc, scheduledAt) == [doc EXCEPT !.scheduledAt = scheduledAt]

\* part_006 lines 347-348: visit.scheduledAt = new Date(scheduledAt);
\* visit.status = 'pending'
Rescheduled(doc, scheduledAt) ==
    [doc EXCEPT !.scheduledAt = scheduledAt, !.status = "pending"]

\* part_006 lines 347-351: the save and the response
RescheduleSave(p) ==
    /\ req[p].op = "reschedule" /\ req[p].pc = "save"
    /\ SaveAndReply(p, Rescheduled(req[p].doc, req[p].scheduledAt), FALSE)
    /\ UNCHANGED <<now, slots, nextSlotId, unavailable, swPc, swIds, calls>>

\* mutant of RecipientRescheduleFind: the status of the visit is not looked at
RecipientRescheduleFindAnyStatus(p, id, scheduledAt, caller) ==
    /\ Accept(p)
    /\ LET r == [Idle EXCEPT !.op = "recipientReschedule", !.visit = id,
                             !.scheduledAt = scheduledAt, !.caller = caller,
                             !.now = now]
       IN  IF scheduledAt = NoInstant THEN Reply(p, r, 400, "ValidationError")
           ELSE IF ~HasVisit(id) THEN Reply(p, r, 404, "NotFoundError")
           ELSE IF visits[id].recipient # caller
                THEN Reply(p, r, 403, "AuthorizationError")
                ELSE Continue(p, [r EXCEPT !.pc = "save", !.doc = visits[id]])
    /\ UNCHANGED <<now, slots, nextSlotId, visits, unavailable, swPc, swIds>>

\* part_006 lines 361-370: reschedule by the recipient up to the save
RecipientRescheduleFind(p, id, scheduledAt, caller) ==
    /\ Accept(p)
    /\ LET r == [Idle EXCEPT !.op = "recipientReschedule", !.visit = id,
                             !.scheduledAt = scheduledAt, !.caller = caller,
                             !.now = now]
       IN  IF scheduledAt = NoInstant THEN Reply(p, r, 400, "ValidationError")
           ELSE IF ~HasVisit(id) THEN Reply(p, r, 404, "NotFoundError")
           ELSE IF visits[id].recipient # caller
                THEN Reply(p, r, 403, "AuthorizationError")
           ELSE IF visits[id].status # "approved"
                THEN Reply(p, r, 400, "ValidationError")
                ELSE Continue(p, [r EXCEPT !.pc = "save", !.doc = visits[id]])
    /\ UNCHANGED <<now, slots, nextSlotId, visits, unavailable, swPc, swIds>>

\* part_006 lines 371-373: visit.scheduledAt = new Date(scheduledAt); save
RecipientRescheduleSave(p) ==
    /\ req[p].op = "recipientReschedule" /\ req[p].pc = "save"
    /\ SaveAndReply(p, [req[p].doc EXCEPT !.scheduledAt = req[p].scheduledAt], FALSE)
    /\ UNCHANGED <<now, slots, nextSlotId, unavailable, swPc, swIds, calls>>

\* part_006 lines 383-387: cancel by the requester up to the save
CancelFind(p, id, caller) ==
    /\ Accept(p)
    /\ LET r == [Idle EXCEPT !.op = "cancel", !.visit = id, !.caller = caller,
                             !.now = now]
       IN  IF ~HasVisit(id) THEN Reply(p, r, 404, "NotFoundError")
           ELSE IF visits[id].requester # caller
                THEN Reply(p, r, 403, "AuthorizationError")
                ELSE Continue(p, [r EXCEPT !.pc = "save", !.doc = visits[id]])
    /\ UNCHANGED <<now, slots, nextSlotId, visits, unavailable, swPc, swIds>>

\* mutant of Cancelled: the cancelled visit goes back to pending
CancelledToPending(doc) == [doc EXCEPT !.status = "pending"]

\* part_006 line 388: visit.status = 'rejected'
Cancelled(doc) == [doc EXCEPT !.status = "rejected"]

\* part_006 lines 388-390: the save and the response
CancelSave(p) ==
    /\ req[p].op = "cancel" /\ req[p].pc = "save"
    /\ SaveAndReply(p, Cancelled(req[p].doc), FALSE)
    /\ UNCHANGED <<now, slots, nextSlotId, unavailable, swPc, swIds, calls>>

-----------------------------------------------------------------------------
(* index.js: the scheduled tasks *)

\* mutant of ToExpireIds: slots already marked expired are candidates again
ToExpireIdsAgain(t) ==
    {s.id : s \in {c \in slots :
        /\ ~c.isBooked
        /\ ParseLocal(c.date, c.endTime) # NaN
        /\ ParseLocal(c.date, c.endTime) <= t}}

\* lines 93-104 of markExpiredSlots: the candidates whose end instant has passed
ToExpireIds(t) ==
    {s.id : s \in {c \in slots :
        /\ ~c.isExpired /\ ~c.isBooked
        /\ ParseLocal(c.date, c.endTime) # NaN
        /\ ParseLocal(c.date, c.endTime) <= t}}

\* markExpiredSlots up to its updateMany
SweepRead ==
    /\ swPc = "idle"
    /\ swIds' = ToExpireIds(now)
    /\ swPc' = IF ToExpireIds(now) # {} THEN "update" ELSE "idle"
    /\ resp' = NoResponse
    /\ UNCHANGED <<now, slots, nextSlotId, visits, unavailable, req, calls>>

\* VisitSlot.updateMany({_id: {$in: toExpireIds}}, {$set: {isExpired: true}})
MarkExpired(s, ids) == IF s.id \in ids THEN [s EXCEPT !.isExpired = TRUE] ELSE s

SweepUpdate ==
    /\ swPc = "update"
    /\ slots' = {MarkExpired(s, swIds) : s \in slots}
    /\ swPc' = "idle"
    /\ swIds' = {}
    /\ resp' = NoResponse
    /\ UNCHANGED <<now, nextSlotId, visits, unavailable, req, calls>>

\* lines 105-111 of markExpiredSlots: the one updateMany of the run throws
\* (caught and logged at line 110) after it has written done, a part of the ids
SweepUpdateFails ==
    /\ swPc = "update"
    /\ \E done \in (SUBSET swIds) \ {swIds} :
          slots' = {MarkExpired(s, done) : s \in slots}
    /\ swPc' = "idle"
    /\ swIds' = {}
    /\ resp' = NoResponse
    /\ UNCHANGED <<now, nextSlotId, visits, unavailable, req, calls>>

\* now.toISOString().split('T')[0]: the server's zone is taken to be UTC
isoDate(t) == t \div MinutesPerDay

\* the filter of the deleteMany of cleanupExpiredSlots
CleanupMatches(s, t) ==
    \/ s.date < isoDate(t)
    \/ s.date = isoDate(t) /\ s.startTime < toHM(t)

\* cleanupExpiredSlots: one deleteMany
CleanupExpiredSlots ==
    /\ slots' = {s \in slots : ~CleanupMatches(s, now)}
    /\ resp' = NoResponse
    /\ UNCHANGED <<now, nextSlotId, visits, unavailable, req, swPc, swIds, calls>>

-----------------------------------------------------------------------------

\* the instants the clock passes through while requests are served
TickInstants == {t \in Instants : toYMD(t) = 0}

\* time passes
Tick ==
    /\ \E t \in TickInstants : t > now /\ now' = t
    /\ resp' = NoResponse
    /\ UNCHANGED <<slots, nextSlotId, visits, unavailable, req, swPc, swIds, calls>>

Init ==
    /\ now = HM(8, 0)
    /\ slots = {}
    /\ nextSlotId = 1
    /\ visits = <<>>
    /\ unavailable = [k \in Properties \X Dates |-> 0]
    /\ req = [p \in Procs |-> Idle]
    /\ swPc = "idle"
    /\ swIds = {}
    /\ calls = 0
    /\ resp = NoResponse

Next ==
    \/ \E p \in Procs, b \in BookInputs, c \in Buyers :
          BookStart(p, b[1], b[2] * MinutesPerDay + b[3], c)
    \/ \E p \in Procs : BookCheckUnavailable(p)
    \/ \E p \in Procs : BookFindSlot(p)
    \/ \E p \in Procs : BookCreateVisit(p)
    \/ \E p \in Procs : BookSaveSlot(p)
    \/ \E p \in Procs, c \in CreateInputs : CreateSlotsStart(p, c[1], c[2], c[3])
    \/ \E p \in Procs : CreateSlotsItem(p)
    \/ \E p \in Procs, id \in 1..MaxSlots : DeleteSlotStart(p, id)
    \/ \E p \in Procs : DeleteSlotDelete(p)
    \/ \E p \in Procs, u \in UnavailableInputs : UnavailableStart(p, u[1], u[2])
    \/ \E p \in Procs : UnavailableDeleteMany(p)
    \/ \E p \in Procs, u \in UnavailableInputs : UnavailableRemove(p, u[1], u[2])
    \/ SweepRead
    \/ SweepUpdate
    \/ CleanupExpiredSlots
    \/ Tick

Spec == Init /\ [][Next]_vars

-----------------------------------------------------------------------------
(* The availability route on its own, over the stores it can meet: every    *)
(* slot key absent, open, booked or (once its end has passed) expired,      *)
(* every set of blackout dates, every clock value.                          *)

SeedKeys ==
    <<[property |-> "P1", date |-> 0, startTime |-> HM(9, 0)],
      [property |-> "P1", date |-> 0, startTime |-> HM(9, 30)],
      [property |-> "P1", date |-> 1, startTime |-> HM(9, 0)],
      [property |-> "P1", date |-> 1, startTime |-> HM(9, 30)],
      [property |-> "P2", date |-> 1, startTime |-> HM(9, 0)]>>

\* the _id of the slot of each key: the keys were not created in sorted order
SeedIds == <<3, 1, 5, 2, 4>>

SeedStates == {"absent", "open", "booked", "expired"}

\* the visit that booked the slot of key i
SeedVisitId(st, i) == Cardinality({k \in 1..i : st[k] = "booked"})

SeedSlots(st) ==
    {[id |-> SeedIds[i], property |-> SeedKeys[i].property, date |-> SeedKeys[i].date,
      startTime |-> SeedKeys[i].startTime, endTime |-> EndTime(SeedKeys[i].startTime),
      isBooked |-> st[i] = "booked",
      bookedByVisitId |-> IF st[i] = "booked" THEN SeedVisitId(st, i) ELSE NoVisit,
      isExpired |-> st[i] = "expired"] : i \in {k \in DOMAIN SeedKeys : st[k] # "absent"}}

SeedVisits(st) ==
    LET booked == SelectSeq([i \in DOMAIN SeedKeys |-> i], LAMBDA i : st[i] = "booked")
    IN  [j \in 1..Len(booked) |->
            [property |-> SeedKeys[booked[j]].property, requester |-> "buyer1",
             recipient |-> Recipient(SeedKeys[booked[j]].property),
             scheduledAt |-> SeedKeys[booked[j]].date * MinutesPerDay
                             + SeedKeys[booked[j]].startTime,
             status |-> "pending"]]

InitAvail ==
    /\ now \in Instants
    /\ \E st \in [DOMAIN SeedKeys -> SeedStates] :
          /\ \A i \in DOMAIN SeedKeys :
                st[i] = "expired" =>
                    ParseLocal(SeedKeys[i].date, EndTime(SeedKeys[i].startTime)) <= now
          /\ slots = SeedSlots(st)
          /\ visits = SeedVisits(st)
    /\ nextSlotId = Len(SeedKeys) + 1
    /\ unavailable \in [Properties \X Dates -> {0, 1}]
    /\ \A k \in Properties \X Dates : unavailable[k] = 1 => k[2] \in {0, 1}
    /\ req = [p \in Procs |-> Idle]
    /\ swPc = "idle"
    /\ swIds = {}
    /\ calls = 0
    /\ resp = NoResponse

NextAvail ==
    \/ \E prop \in Properties : AvailabilityStart(1, prop)
    \/ AvailabilityFind(1)

SpecAvail == InitAvail /\ [][NextAvail]_vars

-----------------------------------------------------------------------------
(* The book route on its own, over the stores it can meet, for both          *)
(* properties (P2 has no agent) and two callers.                             *)

BookSeedKeys == {1, 5}

BookCallers == {"buyer1", "buyer2"}

\* the (propertyId, date, time) of the scheduledAt of the requests
BookRequests == Properties \X Dates \X {HM(9, 0)}

InitBook ==
    /\ now \in Instants
    /\ \E st \in [DOMAIN SeedKeys -> SeedStates] :
          /\ \A i \in DOMAIN SeedKeys :
                /\ i \notin BookSeedKeys => st[i] = "absent"
                /\ st[i] = "expired" =>
                      ParseLocal(SeedKeys[i].date, EndTime(SeedKeys[i].startTime)) <= now
          /\ Cardinality({i \in DOMAIN SeedKeys : st[i] = "booked"}) < MaxVisits
          /\ slots = SeedSlots(st)
          /\ visits = SeedVisits(st)
    /\ nextSlotId = Len(SeedKeys) + 1
    /\ unavailable \in [Properties \X Dates -> {0, 1}]
    /\ \A k \in Properties \X Dates : unavailable[k] = 1 => k[2] = 1
    /\ req = [p \in Procs |-> Idle]
    /\ swPc = "idle"
    /\ swIds = {}
    /\ calls = 0
    /\ resp = NoResponse

NextBook ==
    \/ \E p \in Procs, b \in BookRequests, c \in BookCallers :
          BookStart(p, b[1], b[2] * MinutesPerDay + b[3], c)
    \/ \E p \in Procs : BookCheckUnavailable(p)
    \/ \E p \in Procs : BookFindSlot(p)
    \/ \E p \in Procs : BookCreateVisit(p)
    \/ \E p \in Procs : BookSaveSlot(p)

SpecBook == InitBook /\ [][NextBook]_vars

-----------------------------------------------------------------------------
(* The slot management routes on their own (createSlots, deleteSlot), over    *)
(* seeded stores and clock values 10 and 5 minutes before a candidate time.   *)

SlotSeedKeys == {2, 4}

\* 08:00, 08:50 and 08:55 of day 0, 08:00 of day 1
SlotInstants == {HM(8, 0), HM(8, 50), HM(8, 55), MinutesPerDay + HM(8, 0)}

InitSlots ==
    /\ now \in SlotInstants
    /\ \E st \in [DOMAIN SeedKeys -> SeedStates] :
          /\ \A i \in DOMAIN SeedKeys :
                /\ i \notin SlotSeedKeys => st[i] = "absent"
                /\ st[i] = "expired" =>
                      ParseLocal(SeedKeys[i].date, EndTime(SeedKeys[i].startTime)) <= now
          /\ Cardinality({i \in DOMAIN SeedKeys : st[i] = "booked"}) < MaxVisits
          /\ slots = SeedSlots(st)
          /\ visits = SeedVisits(st)
    /\ nextSlotId = Cardinality(SlotSeedKeys) + 1
    /\ unavailable = [k \in Properties \X Dates |-> 0]
    /\ req = [p \in Procs |-> Idle]
    /\ swPc = "idle"
    /\ swIds = {}
    /\ calls = 0
    /\ resp = NoResponse

NextSlots ==
    \/ \E p \in Procs, c \in CreateInputs : CreateSlotsStart(p, c[1], c[2], c[3])
    \/ \E p \in Procs : CreateSlotsItem(p)
    \/ \E p \in Procs, id \in 1..MaxSlots : DeleteSlotStart(p, id)
    \/ \E p \in Procs : DeleteSlotDelete(p)

SpecSlots == InitSlots /\ [][NextSlots]_vars

-----------------------------------------------------------------------------
(* The transitions of a VisitRequest on their own: one booked visit of P1    *)
(* (requester buyer1, recipient agent1, scheduled at 09:00 of day 0) in each *)
(* status the store can hold, before, at and after its scheduled instant.   *)

VisitSeed == [i \in DOMAIN SeedKeys |-> IF i = 1 THEN "booked" ELSE "absent"]

\* 08:00, 09:00 and 09:30 of day 0
VisitInstants == {HM(8, 0), HM(9, 0), HM(9, 30)}

VisitIds == {1, 2}

\* the requester, another buyer, the recipient, another agent-or-admin
VisitCallers == {"buyer1", "buyer2", "agent1", "admin1"}

StatusInputs == {"approved", "rejected", "pending"}

VisitStatusInputs == {"visited", "not visited", "approved"}

ScheduleInputs == {NoInstant, MinutesPerDay + HM(9, 30)}

InitVisits ==
    /\ now \in VisitInstants
    /\ slots = SeedSlots(VisitSeed)
    /\ \E st \in StatusEnum :
          visits = <<[SeedVisits(VisitSeed)[1] EXCEPT !.status = st]>>
    /\ nextSlotId = Len(SeedKeys) + 1
    /\ unavailable = [k \in Properties \X Dates |-> 0]
    /\ req = [p \in Procs |-> Idle]
    /\ swPc = "idle"
    /\ swIds = {}
    /\ calls = 0
    /\ resp = NoResponse

NextVisits ==
    \/ \E p \in Procs, id \in VisitIds, st \in StatusInputs, c \in VisitCallers :
          StatusFind(p, id, st, c)
    \/ \E p \in Procs : StatusSave(p)
    \/ \E p \in Procs, id \in VisitIds, st \in VisitStatusInputs, c \in VisitCallers :
          VisitStatusFind(p, id, st, c)
    \/ \E p \in Procs : VisitStatusSave(p)
    \/ \E p \in Procs, id \in VisitIds, t \in ScheduleInputs, c \in VisitCallers :
          RescheduleFind(p, id, t, c)
    \/ \E p \in Procs : RescheduleSave(p)
    \/ \E p \in Procs, id \in VisitIds, t \in ScheduleInputs, c \in VisitCallers :
          RecipientRescheduleFind(p, id, t, c)
    \/ \E p \in Procs : RecipientRescheduleSave(p)
    \/ \E p \in Procs, id \in VisitIds, c \in VisitCallers : CancelFind(p, id, c)
    \/ \E p \in Procs : CancelSave(p)

SpecVisits == InitVisits /\ [][NextVisits]_vars

-----------------------------------------------------------------------------
(* The routes that send a mail (book, approve / reject, visit-status) on     *)
(* their own: the visit of SpecVisits, pending or approved, and an open slot *)
(* of P1 at 09:00 of day 1.                                                  *)

NotifySeed ==
    [i \in DOMAIN SeedKeys |-> IF i = 1 THEN "booked" ELSE IF i = 3 THEN "open"
                               ELSE "absent"]

\* 08:00 and 09:00 of day 0
NotifyInstants == {HM(8, 0), HM(9, 0)}

InitNotify ==
    /\ now \in NotifyInstants
    /\ slots = SeedSlots(NotifySeed)
    /\ \E st \in {"pending", "approved"} :
          visits = <<[SeedVisits(NotifySeed)[1] EXCEPT !.status = st]>>
    /\ nextSlotId = Len(SeedKeys) + 1
    /\ unavailable = [k \in Properties \X Dates |-> 0]
    /\ req = [p \in Procs |-> Idle]
    /\ swPc = "idle"
    /\ swIds = {}
    /\ calls = 0
    /\ resp = NoResponse

NextNotify ==
    \/ \E p \in Procs : BookStart(p, "P1", MinutesPerDay + HM(9, 0), "buyer1")
    \/ \E p \in Procs : BookCheckUnavailable(p)
    \/ \E p \in Procs : BookFindSlot(p)
    \/ \E p \in Procs : BookCreateVisit(p)
    \/ \E p \in Procs : BookSaveSlot(p)
    \/ \E p \in Procs, id \in VisitIds, st \in {"approved", "rejected"} :
          StatusFind(p, id, st, "agent1")
    \/ \E p \in Procs : StatusSave(p)
    \/ \E p \in Procs, id \in VisitIds, st \in {"visited", "not visited"} :
          VisitStatusFind(p, id, st, "agent1")
    \/ \E p \in Procs : VisitStatusSave(p)

SpecNotify == InitNotify /\ [][NextNotify]_vars

-----------------------------------------------------------------------------
(* markExpiredSlots on its own, run again and again with no other writer and *)
(* a clock that stands still, over the stores it can meet on its first run:  *)
(* every slot key absent, open or booked, with or without a slot of P1 that  *)
(* starts at 23:45 of day 0 and has the end time createSlots computes.       *)

LateStart == HM(23, 45)

LateId == Len(SeedKeys) + 1

\* the document createSlots stores for P1, day 0, 23:45
LateSlot ==
    [id |-> LateId, property |-> "P1", date |-> 0, startTime |-> LateStart,
     endTime |-> EndTime(LateStart), isBooked |-> FALSE, bookedByVisitId |-> NoVisit,
     isExpired |-> FALSE]

InitSweep ==
    /\ now \in Instants
    /\ \E st \in [DOMAIN SeedKeys -> SeedStates \ {"expired"}],
          late \in SUBSET {LateSlot} :
          /\ slots = SeedSlots(st) \cup late
          /\ visits = SeedVisits(st)
    /\ nextSlotId = LateId + 1
    /\ unavailable = [k \in Properties \X Dates |-> 0]
    /\ req = [p \in Procs |-> Idle]
    /\ swPc = "idle"
    /\ swIds = {}
    /\ calls = 0
    /\ resp = NoResponse

NextSweep ==
    \/ SweepRead
    \/ SweepUpdate
    \/ SweepUpdateFails

SpecSweep == InitSweep /\ [][NextSweep]_vars

-----------------------------------------------------------------------------
(* The sweeper with its timer, next to the clock, the availability route and *)
(* one booking: the 09:00 slot of P1 on day 0 and the 23:45 slot of day 0.   *)

LiveSeed == [i \in DOMAIN SeedKeys |-> IF i = 1 THEN "open" ELSE "absent"]

InitLive ==
    /\ now \in Instants
    /\ \E late \in SUBSET {LateSlot} : slots = SeedSlots(LiveSeed) \cup late
    /\ visits = <<>>
    /\ nextSlotId = LateId + 1
    /\ unavailable = [k \in Properties \X Dates |-> 0]
    /\ req = [p \in Procs |-> Idle]
    /\ swPc = "idle"
    /\ swIds = {}
    /\ calls = 0
    /\ resp = NoResponse

NextLive ==
    \/ Tick
    \/ SweepRead
    \/ SweepUpdate
    \/ AvailabilityStart(1, "P1")
    \/ AvailabilityFind(1)
    \/ BookStart(1, "P1", HM(9, 0), "buyer1")
    \/ BookCheckUnavailable(1)
    \/ BookFindSlot(1)
    \/ BookCreateVisit(1)
    \/ BookSaveSlot(1)

\* setInterval(markExpiredSlots, 3 * 60 * 1000): the timer keeps firing, and a
\* run that has read its candidates goes on to its update
SpecLive == InitLive /\ [][NextLive]_vars /\ WF_vars(SweepRead) /\ WF_vars(SweepUpdate)

-----------------------------------------------------------------------------
(* createSlots on its own for start times all over the day: one call after   *)
(* the other, each for one start time of day 1, into an empty store at 08:00 *)
(* of day 0.                                                                 *)

StartHours == {0, 9, 22, 23}

StartMinutes == {0, 15, 29, 30, 31, 45, 59}

StartTimes == {HM(h, m) : h \in StartHours, m \in StartMinutes}

NextEnd ==
    \/ \E start \in StartTimes : CreateSlotsStart(1, "P1", 1, <<start>>)
    \/ CreateSlotsItem(1)

SpecEnd == Init /\ [][NextEnd]_vars

-----------------------------------------------------------------------------
(* book calls served one after the other at one instant, over the stores     *)
(* they can meet: the clock does not move and no other route runs.           *)

AgreeSeedKeys == {1, 3, 5}

\* the (propertyId, date, time) of the scheduledAt of the requests
AgreeRequests == Properties \X {0, 1} \X Times

InitAgree ==
    /\ now \in Instants
    /\ \E st \in [DOMAIN SeedKeys -> SeedStates] :
          /\ \A i \in DOMAIN SeedKeys :
                /\ i \notin AgreeSeedKeys => st[i] = "absent"
                /\ st[i] = "expired" =>
                      ParseLocal(SeedKeys[i].date, EndTime(SeedKeys[i].startTime)) <= now
          /\ Cardinality({i \in DOMAIN SeedKeys : st[i] = "booked"}) < MaxVisits
          /\ slots = SeedSlots(st)
          /\ visits = SeedVisits(st)
    /\ nextSlotId = Len(SeedKeys) + 1
    /\ unavailable \in [Properties \X Dates -> {0, 1}]
    /\ \A k \in Properties \X Dates : unavailable[k] = 1 => k = <<"P1", 1>>
    /\ req = [p \in Procs |-> Idle]
    /\ swPc = "idle"
    /\ swIds = {}
    /\ calls = 0
    /\ resp = NoResponse

NextAgree ==
    \/ \E b \in AgreeRequests : BookStart(1, b[1], b[2] * MinutesPerDay + b[3], "buyer1")
    \/ BookCheckUnavailable(1)
    \/ BookFindSlot(1)
    \/ BookCreateVisit(1)
    \/ BookSaveSlot(1)

SpecAgree == InitAgree /\ [][NextAgree]_vars

-----------------------------------------------------------------------------
(* Properties of the slot store *)

\* process p answers its request in this step
Answers(p) == req[p].op # "idle" /\ req'[p].op = "idle" /\ resp'.proc = p

\* C1: of two book() calls that run concurrently against the same key exactly
\* one succeeds; they never both succeed: a book() call does not answer 201 for
\* a slot that a VisitRequest has booked already.
C1_NoSecondBookingOfASlot ==
    [][\A p \in Procs :
          (req[p].op = "book" /\ Answers(p) /\ resp'.status = 201)
              => ~SlotById(resp'.slot).isBooked]_vars

\* C2: every booked slot carries the back-reference of a stored VisitRequest,
\* and no two slots carry a back-reference to the same VisitRequest.
C2_BookedSlotHasOneOwner ==
    /\ \A s \in slots : s.isBooked => s.bookedByVisitId \in 1..Len(visits)
    /\ \A s, t \in slots :
          (s.id # t.id /\ s.bookedByVisitId # NoVisit) =>
              s.bookedByVisitId # t.bookedByVisitId

\* C2 witness: two booked slots, each with its own VisitRequest
C2_Witness ==
    \E s, t \in slots : s.id # t.id /\ s.isBooked /\ t.isBooked

\* C3: a slot is open, booked or expired, and no slot is ever both booked and
\* expired (the Sweeper's write leaves a slot booked meanwhile untouched).
C3_NeverBookedAndExpired ==
    \A s \in slots : ~(s.isBooked /\ s.isExpired)

\* C4: the hard-delete cleanup pass never removes a booked slot.
C4_CleanupKeepsBookedSlots ==
    [][CleanupExpiredSlots => \A s \in slots : s.isBooked => s \in slots']_vars

\* C5: creating a blackout date for (property, date) removes every open slot of
\* that property and date and leaves every booked slot and every VisitRequest
\* unchanged.
C5_BlackoutRemovesOpenKeepsBooked ==
    [][\A p \in Procs :
          /\ (req[p].op = "idle" /\ req'[p].op = "unavailable") =>
                slots' = slots /\ visits' = visits
          /\ (req[p].op = "unavailable" /\ Answers(p)) =>
                /\ \A s \in slots' :
                      ~(/\ s.property = req[p].property /\ s.date = req[p].date
                        /\ ~s.isBooked /\ ~s.isExpired)
                /\ \A s \in slots : s.isBooked => s \in slots'
                /\ visits' = visits]_vars

\* C5 witness: a blackout date was just created for tomorrow; a slot of that
\* date was removed, a booked slot of that date is still stored and booked and
\* its VisitRequest is still pending
C5_Witness ==
    /\ resp.op = "unavailable" /\ resp.status = 201 /\ resp.date = toYMD(now) + 1
    /\ Cardinality(slots) < nextSlotId - 1
    /\ \E s \in slots : /\ s.property = resp.property /\ s.date = resp.date
                        /\ s.isBooked
                        /\ visits[s.bookedByVisitId].status = "pending"

\* C8: once book() has succeeded on a slot, that slot stays booked under every
\* later sequence of operations.
C8_BookedStaysBooked ==
    [][\A s \in slots : s.isBooked => \E t \in slots' : t.id = s.id /\ t.isBooked]_vars

\* C19: a slot is removed from the store only while it is open: no operation
\* (deleteSlot, blackout creation, sweeper, cleanup) removes a slot that is
\* booked or that has been marked expired.
C19_RemovedOnlyWhileOpen ==
    [][\A s \in slots : (s.isBooked \/ s.isExpired) => HasSlot(s.id)']_vars

\* C20: in every reachable state there is at most one blackout record per
\* (property, date), also after repeated or concurrent blackout creations.
C20_OneBlackoutPerDate ==
    \A k \in DOMAIN unavailable : unavailable[k] <= 1

\* C20 witness: a blackout creation was answered 201 while another creation for
\* the same property and date is in flight, past its upsert
C20_Witness ==
    /\ resp.op = "unavailable" /\ resp.status = 201
    /\ unavailable[<<resp.property, resp.date>>] = 1
    /\ \E p \in Procs : /\ req[p].op = "unavailable" /\ req[p].pc = "deleteMany"
                        /\ req[p].property = resp.property
                        /\ req[p].date = resp.date

-----------------------------------------------------------------------------
(* Properties of the book route *)

\* the request of process p was answered with this status and kind, and no
\* VisitRequest and no slot was written
Refused(p, op, code, kind) ==
    /\ resp'.proc = p /\ resp'.op = op /\ resp'.status = code /\ resp'.kind = kind
    /\ req'[p].op = "idle"
    /\ visits' = visits
    /\ slots' = slots

\* C11: book() fails with ValidationError whenever the requested instant is not
\* strictly later than the server's current time or its date lies outside
\* [today, today+30d]; no VisitRequest is created and no slot is changed.
C11_InvalidInstantRejected ==
    [][\A p \in Procs, b \in BookRequests, c \in BookCallers :
          LET sched == b[2] * MinutesPerDay + b[3]
          IN  (/\ BookStart(p, b[1], sched, c)
               /\ \/ sched <= now
                  \/ b[2] < toYMD(now)
                  \/ b[2] > toYMD(now) + HorizonDays)
              => Refused(p, "book", 400, "ValidationError")]_vars

\* C11 witness: a booking was refused as invalid although an open slot of its
\* property and date is stored and the date is no blackout date
C11_Witness ==
    /\ resp.op = "book" /\ resp.status = 400 /\ resp.kind = "ValidationError"
    /\ unavailable[<<resp.property, resp.date>>] = 0
    /\ \E s \in slots : /\ s.property = resp.property /\ s.date = resp.date
                        /\ s.startTime = HM(9, 0)
                        /\ ~s.isBooked /\ ~s.isExpired

\* C12: book() fails with ConflictError whenever (property, date) is in the
\* blackout set when the handler looks it up, even if an unbooked slot with the
\* requested key exists; no VisitRequest is created and no slot is changed.
C12_BlackoutDateRejected ==
    [][\A p \in Procs :
          (/\ BookCheckUnavailable(p)
           /\ unavailable[<<req[p].property, req[p].date>>] > 0)
              => Refused(p, "book", 400, "ConflictError")]_vars

\* C12 witness: a booking was refused for its blackout date while an open slot
\* with the requested key is stored
C12_Witness ==
    /\ resp.op = "book" /\ resp.status = 400 /\ resp.kind = "ConflictError"
    /\ unavailable[<<resp.property, resp.date>>] > 0
    /\ \E s \in slots : /\ s.property = resp.property /\ s.date = resp.date
                        /\ s.startTime = HM(9, 0)
                        /\ ~s.isBooked /\ ~s.isExpired

\* C13: book() succeeds only on a slot that is neither booked nor expired; in
\* particular a slot with expired=true never becomes booked.
C13_ExpiredSlotNeverBooked ==
    [][\A s \in slots : (s.isExpired /\ ~s.isBooked) =>
          \A t \in slots' : t.id = s.id => ~t.isBooked]_vars

\* C14: a successful book() creates exactly one new VisitRequest with status
\* pending, requester the caller and recipient the agent of the property (its
\* creator when it has no agent), and turns exactly the located slot to booked
\* with its back-reference set to that VisitRequest; every other slot and
\* VisitRequest is unchanged.
C14_SuccessfulBookingEffects ==
    [][/\ visits' # visits =>
          /\ Len(visits') = Len(visits) + 1
          /\ SubSeq(visits', 1, Len(visits)) = visits
          /\ slots' = slots
          /\ \E p \in Procs :
                /\ req[p].op = "book" /\ req[p].pc = "createVisit"
                /\ req'[p] = [req[p] EXCEPT !.pc = "saveSlot", !.visit = Len(visits')]
                /\ \A q \in Procs \ {p} : req'[q] = req[q]
       /\ \A p \in Procs :
          (req[p].op = "book" /\ Answers(p) /\ resp'.status = 201) =>
                LET v == resp'.visit
                    d == PropertyDoc(req[p].property)
                IN  /\ v = req[p].visit /\ v \in 1..Len(visits)
                    /\ visits' = visits
                    /\ visits[v].status = "pending"
                    /\ visits[v].requester = req[p].caller
                    /\ visits[v].property = req[p].property
                    /\ visits[v].scheduledAt = req[p].date * MinutesPerDay + req[p].hm
                    /\ visits[v].recipient =
                          IF d.agent # NoUser THEN d.agent ELSE d.createdBy
                    /\ \A s \in slots : s.id # resp'.slot => s \in slots'
                    /\ \A t \in slots' : t.id # resp'.slot => t \in slots
                    /\ \E s \in slots : \E t \in slots' :
                          /\ s.id = resp'.slot /\ t.id = resp'.slot
                          /\ s.property = req[p].property /\ s.date = req[p].date
                          /\ s.startTime = req[p].hm
                          /\ t = [s EXCEPT !.isBooked = TRUE, !.bookedByVisitId = v]]_vars

\* C14 witness: a booking of the property without agent succeeded, its
\* VisitRequest went to the creator of the property, and another slot and
\* another VisitRequest are stored
C14_Witness ==
    /\ resp.op = "book" /\ resp.status = 201 /\ resp.property = "P2"
    /\ visits[resp.visit].recipient = "admin1"
    /\ visits[resp.visit].requester = "buyer2"
    /\ SlotById(resp.slot).bookedByVisitId = resp.visit
    /\ Cardinality(slots) >= 2
    /\ Len(visits) >= 2

-----------------------------------------------------------------------------
(* Properties of the slot management routes *)

\* C15: createSlots rejects the whole call when date is earlier than today or
\* later than today+30 days: it returns an error and creates no slot, whatever
\* the candidate times.
C15_CreateSlotsOutsideHorizonRejected ==
    [][\A p \in Procs, c \in CreateInputs :
          (/\ CreateSlotsStart(p, c[1], c[2], c[3])
           /\ \/ c[2] < toYMD(now)
              \/ c[2] > toYMD(now) + HorizonDays)
              => /\ Refused(p, "createSlots", 400, "ValidationError")
                 /\ nextSlotId' = nextSlotId
                 /\ resp'.created = <<>>]_vars

\* C15 witness: a createSlots call for yesterday was refused
C15_Witness ==
    /\ resp.op = "createSlots" /\ resp.status = 400 /\ resp.kind = "ValidationError"
    /\ resp.date < toYMD(now)

\* C16: in createSlots with date == today a candidate start time is skipped
\* exactly when it is less than 10 minutes ahead of the current time; a
\* candidate 10 minutes or more ahead is not skipped for this reason (both
\* versions of the route).
C16_SkippedExactlyWhenTooSoon ==
    (resp.op = "createSlots" /\ resp.status = 201) =>
        /\ \A i \in 1..Len(resp.skipped) :
              resp.skipped[i][2] = "TooSoon" =>
                 /\ resp.date = toYMD(now)
                 /\ resp.skipped[i][1] - toHM(now) < BufferMinutes
        /\ \A start \in Times :
              LET r == [Idle EXCEPT !.date = resp.date, !.now = now]
                  tooSoon == resp.date = toYMD(now) /\ start - toHM(now) < BufferMinutes
              IN  /\ TooSoon(r, start) <=> tooSoon
                  /\ TooSoonByFields(r, start) <=> tooSoon

\* no two stored slots have the same (property, date, startTime)
UniqueKeys ==
    \A s, t \in slots :
       (s.property = t.property /\ s.date = t.date /\ s.startTime = t.startTime)
           => s = t

C18_DeleteSlotConflictOrRemoval ==
    [][\A p \in Procs, id \in 1..MaxSlots :
          /\ (DeleteSlotStart(p, id) /\ HasSlot(id) /\ SlotById(id).isBooked)
                => Refused(p, "deleteSlot", 400, "Conflict")
          /\ (DeleteSlotStart(p, id) /\ HasSlot(id) /\ ~SlotById(id).isBooked)
                => /\ req'[p].op = "deleteSlot" /\ req'[p].slot = id
                   /\ slots' = slots /\ visits' = visits
          /\ (req[p].op = "deleteSlot" /\ req[p].slot = id /\ Answers(p))
                => /\ resp'.status = 200
                   /\ \A t \in slots' : t.id # id
                   /\ \A s \in slots : s.id # id => s \in slots'
                   /\ slots' \subseteq slots
                   /\ visits' = visits]_vars

\* C18 witness: a deleteSlot call on a booked slot was refused with Conflict
\* and the slot is still stored, booked
C18_Witness ==
    /\ resp.op = "deleteSlot" /\ resp.status = 400 /\ resp.kind = "Conflict"
    /\ HasSlot(resp.slot) /\ SlotById(resp.slot).isBooked
    /\ Cardinality(slots) >= 2

-----------------------------------------------------------------------------
(* Properties of the availability response *)

\* the last step answered an availability request
AvailabilityAnswered == resp.op = "availability" /\ resp.status = 200

\* the slotIds a response body lists
ListedIds(data) ==
    UNION {{data.slotsByDate[g].items[i].slotId : i \in 1..Len(data.slotsByDate[g].items)}
           : g \in 1..Len(data.slotsByDate)}

InWindow(s, n) == s.date >= toYMD(n) /\ s.date <= toYMD(n) + HorizonDays

StartedToday(s, n) == s.date = toYMD(n) /\ s.startTime <= toHM(n)

BlackedOut(s) == unavailable[<<s.property, s.date>>] > 0

\* the slots the specification of availability(property) asks for
ExpectedListed(prop, n) ==
    {s \in slots : /\ s.property = prop
                   /\ ~s.isBooked /\ ~s.isExpired
                   /\ InWindow(s, n)
                   /\ ~BlackedOut(s)
                   /\ ~StartedToday(s, n)}

\* C6: the output of availability(property) never contains a slot whose
\* (property, date) is in the blackout set, and no date of the output is a
\* blackout date of the property.
C6_NoBlackoutDateListed ==
    AvailabilityAnswered =>
        /\ \A id \in ListedIds(resp.data) : ~BlackedOut(SlotById(id))
        /\ \A g \in 1..Len(resp.data.slotsByDate) :
              unavailable[<<resp.property, resp.data.slotsByDate[g].date>>] = 0
        /\ \A i \in 1..Len(resp.data.availableDates) :
              unavailable[<<resp.property, resp.data.availableDates[i]>>] = 0

\* C6 witness: a response that lists slots while an otherwise listable slot of
\* the property lies on a blackout date
C6_Witness ==
    /\ AvailabilityAnswered
    /\ ListedIds(resp.data) # {}
    /\ \E s \in slots : /\ s.property = resp.property
                        /\ ~s.isBooked /\ ~s.isExpired /\ InWindow(s, now)
                        /\ ~StartedToday(s, now)
                        /\ BlackedOut(s)

\* C7: the output of availability(property) never contains a slot dated today
\* whose startTime is less than or equal to the current time (both versions of
\* the route).
C7_NoStartedSlotListed ==
    AvailabilityAnswered =>
        /\ \A id \in ListedIds(resp.data) : ~StartedToday(SlotById(id), now)
        /\ \A id \in ListedIds(availabilityByQuery(resp.property, now,
                        BlackoutSet(resp.property, toYMD(now),
                                    toYMD(addDays(now, HorizonDays)), unavailable),
                        slots)) :
              ~StartedToday(SlotById(id), now)

\* C7 witness: a response that lists slots while an open slot of the property
\* starts at this very minute of today
C7_Witness ==
    /\ AvailabilityAnswered
    /\ ListedIds(resp.data) # {}
    /\ \E s \in slots : /\ s.property = resp.property
                        /\ ~s.isBooked /\ ~s.isExpired /\ ~BlackedOut(s)
                        /\ s.date = toYMD(now) /\ s.startTime = toHM(now)

\* C9: availability(property) returns exactly the open slots of the property
\* that are dated within [today, today+30d], not on a blackout date and not
\* started today, each under its own date and with its own times.
C9_ExactlyTheOpenSlots ==
    AvailabilityAnswered =>
        /\ ListedIds(resp.data) = {s.id : s \in ExpectedListed(resp.property, now)}
        /\ \A g \in 1..Len(resp.data.slotsByDate) :
              \A i \in 1..Len(resp.data.slotsByDate[g].items) :
                 LET item == resp.data.slotsByDate[g].items[i]
                     s == SlotById(item.slotId)
                 IN  /\ s.date = resp.data.slotsByDate[g].date
                     /\ item.startTime = s.startTime
                     /\ item.endTime = s.endTime

\* C9 witness: a response that lists slots while the store also holds a booked
\* slot and an expired slot of the property in the window and an open slot of
\* another property
C9_Witness ==
    /\ AvailabilityAnswered
    /\ ListedIds(resp.data) # {}
    /\ \E s \in slots : s.property = resp.property /\ s.isBooked /\ InWindow(s, now)
                        /\ ~BlackedOut(s) /\ ~StartedToday(s, now)
    /\ \E s \in slots : s.property = resp.property /\ s.isExpired /\ InWindow(s, now)
    /\ \E s \in slots : s.property # resp.property /\ ~s.isBooked /\ ~s.isExpired
                        /\ InWindow(s, now) /\ ~BlackedOut(s)

\* C10: the output lists dates in ascending order and, within each date, slots
\* in ascending startTime order; every date listed has at least one slot, and
\* availableDates is the list of the keys of slotsByDate.
C10_SortedNonEmptyGroups ==
    AvailabilityAnswered =>
        LET byDate == resp.data.slotsByDate
        IN  /\ \A g, h \in 1..Len(byDate) : g < h => byDate[g].date < byDate[h].date
            /\ \A g \in 1..Len(byDate) :
                  /\ Len(byDate[g].items) > 0
                  /\ \A i, j \in 1..Len(byDate[g].items) :
                        i < j => byDate[g].items[i].startTime < byDate[g].items[j].startTime
            /\ resp.data.availableDates = [g \in 1..Len(byDate) |-> byDate[g].date]

\* C10 witness: a response with two dates, one of them with two slots
C10_Witness ==
    /\ AvailabilityAnswered
    /\ Len(resp.data.slotsByDate) >= 2
    /\ \E g \in 1..Len(resp.data.slotsByDate) : Len(resp.data.slotsByDate[g].items) >= 2

-----------------------------------------------------------------------------
(* Properties of the VisitRequest transitions *)

\* C21: an approve / reject call changes the stored status only when that
\* status is pending; on a VisitRequest in any other status it leaves the
\* status as it is
C21_ApproveRejectOnlyFromPending ==
    [][\A p \in Procs :
          StatusSave(p) /\ visits[req[p].visit].status # "pending"
              => visits'[req[p].visit].status = visits[req[p].visit].status]_vars

\* the statuses the spec calls terminal, as the routes spell them
TerminalStatuses == {"rejected", "visited", "not visited"}

\* C22: rejected, visited and not_visited are terminal: no approve / reject,
\* visit-status, reschedule, recipient reschedule or cancel call ever changes
\* the status of a VisitRequest that has one of them
C22_TerminalStatusesStay ==
    [][\A id \in DOMAIN visits :
          visits[id].status \in TerminalStatuses
              => visits'[id].status = visits[id].status]_vars

\* C23: a visit-status call of the recipient for visited / not visited goes on
\* to write the status only when the VisitRequest is approved and now is at or
\* after scheduledAt; before scheduledAt it is refused with a ValidationError
\* (400), on a VisitRequest that is not approved it is refused too, and a
\* refused call leaves the stored VisitRequests as they were
C23_VisitStatusOnlyApprovedAfterSchedule ==
    [][\A p \in Procs, id \in VisitIds, st \in {"visited", "not visited"},
          c \in VisitCallers :
          HasVisit(id) /\ c = visits[id].recipient /\ VisitStatusFind(p, id, st, c)
              => LET early == now < visits[id].scheduledAt
                     approved == visits[id].status = "approved"
                 IN  /\ early => /\ Refused(p, "visitStatus", 400, "ValidationError")
                                 /\ visits' = visits
                     /\ ~approved => /\ resp'.proc = p /\ req'[p].op = "idle"
                                     /\ resp'.status >= 400
                                     /\ visits' = visits
                     /\ approved /\ ~early
                           => /\ req'[p].op = "visitStatus" /\ req'[p].pc = "save"
                              /\ req'[p].status = st]_vars

\* a visit-status call on the approved visit was answered 400 before the
\* scheduled instant of the visit
C23_Witness ==
    /\ resp.op = "visitStatus" /\ resp.status = 400 /\ resp.kind = "ValidationError"
    /\ HasVisit(resp.visit)
    /\ visits[resp.visit].status = "approved"
    /\ now < visits[resp.visit].scheduledAt

\* the five states the spec declares, as the routes spell them
DeclaredStatuses == {"pending", "approved", "rejected", "visited", "not visited"}

\* C24: for an approved VisitRequest, a visit-status call of the recipient at or
\* after scheduledAt succeeds and the stored status becomes the requested
\* visited / not visited; the stored status is always one of the five declared
\* states
C24_AttendanceStatusIsStored ==
    /\ [](\A id \in DOMAIN visits : visits[id].status \in DeclaredStatuses)
    /\ [][\A p \in Procs :
             VisitStatusSave(p) /\ visits[req[p].visit].status = "approved"
                 => /\ resp'.status = 200
                    /\ visits'[req[p].visit].status = req[p].status]_vars

\* C25: a reschedule by the requester of a VisitRequest it found approved sets
\* scheduledAt to the new value and the status to pending and changes no slot:
\* the slot of the original time stays booked with its back-reference, and no
\* slot is booked or created for the new time
C25_RequesterRescheduleEffects ==
    [][\A p \in Procs :
          RescheduleSave(p) /\ req[p].doc.status = "approved"
              => /\ resp'.status = 200
                 /\ visits' = [visits EXCEPT ![req[p].visit] =
                                  [@ EXCEPT !.scheduledAt = req[p].scheduledAt,
                                            !.status = "pending"]]
                 /\ slots' = slots
                 /\ nextSlotId' = nextSlotId]_vars

\* a reschedule by the requester has been answered: the visit is pending at
\* the new instant, and the slot of the original time is still booked by it
C25_Witness ==
    /\ resp.op = "reschedule" /\ resp.status = 200
    /\ visits[resp.visit].status = "pending"
    /\ visits[resp.visit].scheduledAt = MinutesPerDay + HM(9, 30)
    /\ \E s \in slots : /\ s.isBooked /\ s.bookedByVisitId = resp.visit
                        /\ s.date = 0 /\ s.startTime = HM(9, 0)
    /\ \A s \in slots : s.date # 1

\* C26: a reschedule by the recipient goes through only when the VisitRequest
\* is approved; it then changes scheduledAt only and leaves the status as it
\* is; on a VisitRequest that is not approved it is refused and the
\* VisitRequest is unchanged
C26_RecipientRescheduleOnlyApproved ==
    [][/\ \A p \in Procs, id \in VisitIds, t \in ScheduleInputs \ {NoInstant},
             c \in VisitCallers :
             HasVisit(id) /\ c = visits[id].recipient
                /\ RecipientRescheduleFind(p, id, t, c)
                 => IF visits[id].status = "approved"
                    THEN req'[p].op = "recipientReschedule" /\ req'[p].pc = "save"
                    ELSE Refused(p, "recipientReschedule", 400, "ValidationError")
       /\ \A p \in Procs :
             RecipientRescheduleSave(p)
                 => /\ req[p].doc.status = "approved"
                    /\ resp'.status = 200
                    /\ visits' = [visits EXCEPT ![req[p].visit] =
                                     [@ EXCEPT !.scheduledAt = req[p].scheduledAt]]
                    /\ slots' = slots]_vars

\* a reschedule by the recipient has been answered: the visit is approved at
\* the new instant
C26_Witness ==
    /\ resp.op = "recipientReschedule" /\ resp.status = 200
    /\ visits[resp.visit].status = "approved"
    /\ visits[resp.visit].scheduledAt = MinutesPerDay + HM(9, 30)

\* C27: a cancel by the requester of a pending or approved VisitRequest sets
\* its status to rejected and does not delete it; no step of any operation
\* removes a stored VisitRequest
C27_CancelRejectsAndKeeps ==
    [][/\ Len(visits') >= Len(visits)
       /\ \A id \in DOMAIN visits :
             /\ visits'[id].property = visits[id].property
             /\ visits'[id].requester = visits[id].requester
             /\ visits'[id].recipient = visits[id].recipient
       /\ \A p \in Procs :
             CancelSave(p) /\ req[p].doc.status \in {"pending", "approved"}
                 => /\ resp'.status = 200
                    /\ visits' = [visits EXCEPT ![req[p].visit] =
                                     [@ EXCEPT !.status = "rejected"]]]_vars

\* a cancel has been answered: the VisitRequest is still stored, as rejected
C27_Witness ==
    /\ resp.op = "cancel" /\ resp.status = 200
    /\ HasVisit(resp.visit)
    /\ visits[resp.visit].status = "rejected"
    /\ visits[resp.visit].requester = "buyer1"

\* C28: on every transition route, a well-formed call on a stored VisitRequest
\* by a caller who is not the relevant party (the recipient for approve /
\* reject, visit-status and recipient reschedule; the requester for reschedule
\* and cancel) is refused with an AuthorizationError (403) and leaves status
\* and scheduledAt of every VisitRequest unchanged
C28_OtherCallersRefused ==
    [][calls' # calls =>
        \A p \in Procs, id \in VisitIds, c \in VisitCallers :
          HasVisit(id) =>
            /\ \A st \in {"approved", "rejected"} :
                  c # visits[id].recipient /\ StatusFind(p, id, st, c)
                      => Refused(p, "status", 403, "AuthorizationError")
            /\ \A st \in {"visited", "not visited"} :
                  c # visits[id].recipient /\ VisitStatusFind(p, id, st, c)
                      => Refused(p, "visitStatus", 403, "AuthorizationError")
            /\ \A t \in ScheduleInputs \ {NoInstant} :
                  /\ c # visits[id].recipient /\ RecipientRescheduleFind(p, id, t, c)
                        => Refused(p, "recipientReschedule", 403, "AuthorizationError")
                  /\ c # visits[id].requester /\ RescheduleFind(p, id, t, c)
                        => Refused(p, "reschedule", 403, "AuthorizationError")
            /\ c # visits[id].requester /\ CancelFind(p, id, c)
                  => Refused(p, "cancel", 403, "AuthorizationError")]_vars

\* an approve / reject call on the stored visit was refused with 403
C28_Witness ==
    /\ resp.op = "status" /\ resp.status = 403 /\ resp.kind = "AuthorizationError"
    /\ HasVisit(resp.visit)

\* C29: an error of the mail step after a booking, an approval or rejection,
\* or an attendance-status change never changes the outcome: the write of the
\* handler stays committed and the call is answered with success
C29_MailErrorKeepsOutcome ==
    [][\A p \in Procs :
          /\ BookSaveSlot(p) /\ HasSlot(req[p].slot)
                => /\ resp'.proc = p /\ resp'.status = 201
                   /\ \E s \in slots' : /\ s.id = req[p].slot /\ s.isBooked
                                        /\ s.bookedByVisitId = req[p].visit
                   /\ visits' = visits
          /\ StatusSave(p)
                => /\ resp'.proc = p /\ resp'.status = 200
                   /\ visits' = SaveVisit(req[p].visit, req[p].doc,
                                          [req[p].doc EXCEPT !.status = req[p].status])
          /\ VisitStatusSave(p) /\ visits' # visits
                => resp'.proc = p /\ resp'.status = 200]_vars

\* a booking was answered 201 although its mail step failed, and the slot is
\* booked by the new visit
C29_Witness ==
    /\ resp.op = "book" /\ resp.status = 201 /\ resp.mailError
    /\ HasVisit(resp.visit)
    /\ \E s \in slots : s.id = resp.slot /\ s.isBooked /\ s.bookedByVisitId = resp.visit

-----------------------------------------------------------------------------
(* Properties of the expiry sweeper *)

\* C30: running markExpiredSlots twice in a row, with no write in between and
\* the same now, is idempotent: after the update of the first run no slot is a
\* candidate, and a run that finds no candidate writes nothing and ends
C30_SweepTwiceIsIdempotent ==
    [][/\ SweepUpdate => ToExpireIds(now)' = {}
       /\ SweepRead /\ ToExpireIds(now) = {}
             => /\ swPc' = "idle" /\ swIds' = {}
                /\ UNCHANGED <<slots, visits, unavailable, nextSlotId>>]_vars

\* a run has marked a slot expired and ended; an open slot of a later time
\* and a booked slot whose end has passed are left, and neither is a candidate
C30_Witness ==
    /\ swPc = "idle"
    /\ \E s \in slots : s.isExpired /\ ~s.isBooked
    /\ \E s \in slots : ~s.isExpired /\ ~s.isBooked
    /\ \E s \in slots : s.isBooked /\ ParseLocal(s.date, s.endTime) <= now
    /\ ToExpireIds(now) = {}

\* the end instant of a slot: its date and start time plus the slot length
EndInstant(s) == s.date * MinutesPerDay + s.startTime + SlotMinutes

\* the slot with this _id is stored, unbooked and not marked expired
IsOpen(id) == \E s \in slots : s.id = id /\ ~s.isBooked /\ ~s.isExpired

\* the slot with this _id is open although its end instant has passed
OpenPastEnd(id) ==
    \E s \in slots : s.id = id /\ ~s.isBooked /\ ~s.isExpired /\ EndInstant(s) <= now

\* C31: the sweeper runs at start and then on its timer, so every slot that is
\* still unbooked after its end instant is eventually marked expired (unless
\* it is booked or removed meanwhile); a slot marked expired stays marked, and
\* no availability response lists a slot that is marked expired
C31_ElapsedSlotEventuallyExpired ==
    /\ \A id \in 1..LateId : OpenPastEnd(id) ~> ~IsOpen(id)
    /\ [][\A s \in slots : s.isExpired =>
             \A t \in slots' : t.id = s.id => t.isExpired]_vars
    /\ [](AvailabilityAnswered =>
             \A s \in slots : s.isExpired => s.id \notin ListedIds(resp.data))

\* C32: a sweeper run with no concurrent write sets isExpired on exactly the
\* slots that were unbooked, not expired and had date + endTime <= now; it
\* changes no other field, leaves every other slot as it is, removes no slot
\* and writes no VisitRequest and no blackout date
C32_SweepMarksExactlyElapsedOpen ==
    [][/\ SweepUpdate
             => /\ slots' = {IF /\ ~s.isBooked /\ ~s.isExpired
                                /\ s.date * MinutesPerDay + s.endTime <= now
                             THEN [s EXCEPT !.isExpired = TRUE] ELSE s : s \in slots}
                /\ UNCHANGED <<visits, unavailable>>
       /\ SweepRead /\ swPc' = "idle"
             => \A s \in slots : ~s.isBooked /\ ~s.isExpired
                                   => s.date * MinutesPerDay + s.endTime > now]_vars

\* C33: when the update of one candidate fails in a sweeper run, every other
\* candidate of the run is still marked expired, and the failed one is still
\* open and is a candidate of the next run
C33_FailedUpdateIsIsolated ==
    [][SweepUpdateFails
          => \E failed \in swIds :
                /\ \A s \in slots' : s.id \in swIds \ {failed} => s.isExpired
                /\ IsOpen(failed)'
                /\ failed \in ToExpireIds(now)']_vars

-----------------------------------------------------------------------------
(* Properties of the stored end time *)

\* the wall-clock time 30 minutes after a start time, as minutes of the day
WallClockEnd(start) == (start + SlotMinutes) % MinutesPerDay

\* C34: every slot createSlots has created has endTime equal to its startTime
\* plus 30 minutes as a wall-clock time HH:mm, also for starts at or after
\* 23:30, where the end falls on the next day
C34_EndTimeIsStartPlusThirty ==
    \A s \in slots : s.endTime = WallClockEnd(s.startTime)

-----------------------------------------------------------------------------
(* Properties of concurrent calls *)

\* C35: a book() call that is answered with an error has created no
\* VisitRequest, and the VisitRequest of a book() call answered 201 is the
\* owner a booked slot refers to when the call completes, whatever other book,
\* deleteSlot or blackout calls ran in between
C35_NoVisitWithoutBooking ==
    resp.op = "book" =>
        IF resp.status = 201
        THEN \E s \in slots : s.isBooked /\ s.bookedByVisitId = resp.visit
        ELSE resp.visit = NoVisit

\* C36: when deleteSlot runs concurrently with a book() on the same slot, the
\* document deleteSlot removes is never a slot that book() has made booked, and
\* a book() call that finds its slot gone leaves no slot booked by its visit
C36_DeleteNeverRemovesBooking ==
    [][\A p \in Procs :
          /\ DeleteSlotDelete(p)
                => \A s \in slots \ slots' : s.id = req[p].slot /\ ~s.isBooked
          /\ req[p].op = "book" /\ Answers(p) /\ resp'.status # 201
                => \A s \in slots' : s.bookedByVisitId # req[p].visit
                                       \/ req[p].visit = NoVisit]_vars

\* a blackout creation for (prop, date) has completed and its record is stored
BlackoutInForce(prop, date) ==
    /\ unavailable[<<prop, date>>] > 0
    /\ \A p \in Procs :
          ~(req[p].op = "unavailable" /\ req[p].property = prop /\ req[p].date = date)

\* C37: once a blackout creation for (property, date) has completed, and while
\* the blackout remains, no slot of that property and date goes from unbooked
\* to booked, also when the book() call had passed its blackout check before
\* the blackout was stored
C37_NoBookingUnderBlackout ==
    [][\A s \in slots :
          ~s.isBooked /\ BlackoutInForce(s.property, s.date)
              => \A t \in slots' : t.id = s.id => ~t.isBooked]_vars

\* C38: after a blackout creation for (property, date) has completed, and while
\* the blackout remains, no open slot (unbooked, not expired) of that property
\* and date is stored, whatever createSlots, deleteSlot, book and sweeper
\* operations follow
C38_NoOpenSlotUnderBlackout ==
    \A s \in slots :
        BlackoutInForce(s.property, s.date) => s.isBooked \/ s.isExpired

-----------------------------------------------------------------------------
(* Properties of availability() and book() taken together *)

\* the slotIds availability(prop) lists for the store docs at the present instant
ListedNow(prop, docs) ==
    ListedIds(availability(prop, now,
                           BlackoutSet(prop, toYMD(now), toYMD(addDays(now, HorizonDays)),
                                       unavailable),
                           docs))

\* process 1 answers in this step a book() call for the date and start time of
\* the stored slot s, either at its first step or at a later one
BookAnswersFor(s) ==
    /\ resp'.proc = 1 /\ resp'.op = "book" /\ req'[1].op = "idle"
    /\ \/ /\ req[1].op = "book"
          /\ req[1].property = s.property /\ req[1].date = s.date
          /\ req[1].hm = s.startTime
       \/ /\ req[1].op = "idle"
          /\ BookStart(1, s.property, s.date * MinutesPerDay + s.startTime, "buyer1")

\* C39: availability() and book() agree: at one instant and for one store, a
\* book() call with the date and start time of a slot that availability() of
\* its property lists succeeds (201), and a book() call with the date and start
\* time of a stored slot that availability() does not list fails.
C39_AvailabilityAndBookAgree ==
    [][\A s \in slots :
          BookAnswersFor(s) =>
              (resp'.status = 201 <=> s.id \in ListedNow(s.property, slots))]_vars

\* a book() call has answered 201 for a slot that availability() listed before
\* the call booked it, and the slot is no longer listed
C39_Witness ==
    /\ resp.op = "book" /\ resp.status = 201
    /\ \E s \in slots :
          /\ s.id = resp.slot /\ s.isBooked
          /\ s.id \notin ListedNow(s.property, slots)
          /\ s.id \in ListedNow(s.property,
                                (slots \ {s}) \cup {[s EXCEPT !.isBooked = FALSE,
                                                              !.bookedByVisitId = NoVisit]})

====
